---- MODULE Spec2Model ----
(***************************************************************************)
(* Model of dungsil/paratrans-actions:                                     *)
(*   - scripts/utils/queue.ts: the serialized, rate-limited retry queue    *)
(*     (addQueue / processQueue / executeTaskWithRetry);                   *)
(*   - .github/actions/create-untranslated-issues/index.js: the issue      *)
(*     reconciler (key extraction, create and update of issue bodies);     *)
(*   - unnamed/part_000: the action that closes the open issues when no    *)
(*     untranslated item is left.                                          *)
(* The queue is checked under SpecQueue (its liveness under               *)
(* SpecQueueLive), the reconciler under SpecRecon, the reconciler         *)
(* together with the closing action under SpecTrack (runs that overlap,   *)
(* tracker calls that fail) and under SpecSerial (one run at a time).     *)
(***************************************************************************)
EXTENDS Integers, Sequences, FiniteSets, TLC

VARIABLES
    \* ---- queue.ts module state
    translationQueue,   \* queue.ts:6   task ids, in queue order
    lastRequestTime,    \* queue.ts:11
    isProcessing,       \* queue.ts:12
    \* ---- environment of queue.ts
    clock,              \* Date.now()
    procs,              \* processQueue invocations suspended at an await
    tasks,              \* one record per addQueue call, in submission order
    faults,             \* failed attempts so far (bounded by MaxFaults)
    \* ---- history of the run, read by the properties only
    prevRequestTime,    \* lastRequestTime before its latest assignment
    dispatches,         \* number of assignments of lastRequestTime (line 54)
    nsettled,           \* number of resolve/reject calls so far
    aborts,             \* number of cascade-aborts so far
    \* ---- the tracking store of the reconciler and the history of its runs
    issues,             \* the issues, newest first: number, title, body,
                        \* state, labels
    active,             \* the runs suspended at an await of a tracker call
    apiFailures,        \* tracker calls rejected so far (bounded)
    overlapped,         \* some run listed the issues while another was active
    runs,               \* number of runs that have ended so far
    lastReport,         \* the report the latest run found
    prevReport,         \* the report the run before it found
    lastGroups,         \* what the latest run did, one record per group
    prevGroups,         \* what the run before it did
    lastPath            \* which action the latest run was: "reconcile", "close"

qvars == <<translationQueue, lastRequestTime, isProcessing, clock, procs,
           tasks, faults, prevRequestTime, dispatches, nsettled, aborts>>

rvars == <<issues, active, apiFailures, overlapped, runs, lastReport,
           prevReport, lastGroups, prevGroups, lastPath>>

vars == <<qvars, rvars>>

\* ------------------------------------------------------------------------
\* Bounds of the model
MaxTasks == 3
MaxFaults == 6
StartTime == 1000
MaxRuns == 2
MaxApiFailures == 1
OpTimes == {40, 100}      \* how long one invocation of an operation takes (ms)
TimerLate == {0, 60}     \* how late a timer may fire (ms)

\* ------------------------------------------------------------------------
\* queue.ts constants
MAX_RETRIES == 5
RETRY_DELAYS == <<0, 1000, 2000, 8000, 10000, 60000>>
MinInterval == 100

\* RETRY_DELAYS[i] with the 0-based index of the source
RetryDelayAt(i) == RETRY_DELAYS[i + 1]

\* ------------------------------------------------------------------------
\* Errors.  An error thrown by an operation is identified by the task and
\* the attempt (0-based retryCount) that threw it.
NoErr == [kind |-> "none", task |-> 0, attempt |-> 0]
OpError(kind, t, n) == [kind |-> kind, task |-> t, attempt |-> n]
\* new Error('큐 처리가 이전 에러로 인해 중단됨'), queue.ts:64
AbortError == [kind |-> "aborted", task |-> 0, attempt |-> 0]

\* error instanceof TranslationRefusedError, queue.ts:89
IsRefused(err) == err.kind = "refused"

\* What the promise of task.queue() may reject with: an Error whose message
\* is a string or is missing ("fail"), a TranslationRefusedError
\* ("refused"), or a value the catch block cannot read ("opaque"): undefined
\* or null, or a value whose message is truthy and has no 'includes'.
FailureKinds == {"fail", "refused", "opaque"}

\* queue.ts:93-95  'error.message' and 'message.includes(...)' throw a
\* TypeError for an opaque value: the catch block ends there, before the
\* retry test of line 101, and the TypeError leaves executeTaskWithRetry
HandlerThrows(err) == err.kind = "opaque"
HandlerError(t, n) == OpError("typeerror", t, n)

\* delay(ms) started at 'now': the timer fires no earlier than now + ms
DelayWake(now, ms) == now + ms
FireTime(now, wake, late) == (IF now > wake THEN now ELSE wake) + late

NewTask == [state |-> "queued", err |-> NoErr, calls |-> 0, outcomes |-> <<>>,
            waits |-> <<>>, resolves |-> 0, rejects |-> 0, settledAt |-> 0,
            born |-> 0, abortedBy |-> 0, abortNo |-> 0]

\* The machine: the module state of queue.ts plus the history, as one record
\* that the steps of processQueue transform.
Machine == [queue |-> translationQueue, last |-> lastRequestTime,
            busy |-> isProcessing, tasks |-> tasks, prev |-> prevRequestTime,
            dispatches |-> dispatches, nsettled |-> nsettled,
            aborts |-> aborts, susp |-> <<>>]

\* if (isProcessing) return, queue.ts:36-38
MayStartAlways(busy) == TRUE
MayStart(busy) == ~busy

\* queue.ts:43-47: the time to wait before the next dispatch (0: none)
SlotWaitNone(now, last) == 0
SlotWait(now, last) ==
    LET timeSinceLastRequest == now - last
    IN  IF timeSinceLastRequest < MinInterval
        THEN MinInterval - timeSinceLastRequest ELSE 0

\* queue.ts:49-56 and 84-86: shift the head, record the dispatch time, call
\* executeTaskWithRetry(task, 0), which invokes task.queue() and awaits it
Take(m, now) ==
    IF m.queue = <<>>
    THEN [m EXCEPT !.busy = FALSE, !.susp = <<>>]          \* line 50-52, 72
    ELSE LET t == Head(m.queue)
         IN  [m EXCEPT !.queue = Tail(m.queue),
                       !.prev = m.last,
                       !.last = now,
                       !.dispatches = m.dispatches + 1,
                       !.tasks[t].state = "running",
                       !.tasks[t].calls = m.tasks[t].calls + 1,
                       !.susp = <<[pc |-> "op", task |-> t, retryCount |-> 0,
                                   wake |-> 0]>>]

\* queue.ts:42-47, 72: the head of the while loop, up to its first await
Continue(m, now) ==
    IF m.queue = <<>>
    THEN [m EXCEPT !.busy = FALSE, !.susp = <<>>]
    ELSE IF SlotWait(now, m.last) > 0
         THEN [m EXCEPT !.susp = <<[pc |-> "slot", task |-> 0, retryCount |-> 0,
                                    wake |-> DelayWake(now, SlotWait(now, m.last))]>>]
         ELSE Take(m, now)

\* task.resolve(), queue.ts:57
Resolve(m, t) ==
    [m EXCEPT !.tasks[t].state = "resolved",
              !.tasks[t].resolves = m.tasks[t].resolves + 1,
              !.tasks[t].settledAt = m.nsettled + 1,
              !.nsettled = m.nsettled + 1]

\* task.reject(error), queue.ts:59 and 64
Reject(m, t, err, cause) ==
    [m EXCEPT !.tasks[t].state = "rejected",
              !.tasks[t].err = err,
              !.tasks[t].rejects = m.tasks[t].rejects + 1,
              !.tasks[t].settledAt = m.nsettled + 1,
              !.tasks[t].abortedBy = cause,
              !.nsettled = m.nsettled + 1]

\* queue.ts:61-66: reject every remaining queued task
RECURSIVE Drain(_, _)
DrainNothing(m, cause) == m
Drain(m, cause) ==
    IF m.queue = <<>> THEN m
    ELSE Drain([Reject(m, Head(m.queue), AbortError, cause)
                    EXCEPT !.queue = Tail(m.queue)], cause)

\* queue.ts:58-69: the catch block of processQueue
AbortPoisoned(m, t, err) ==
    LET r == Reject(m, t, err, 0)
        d == Drain([r EXCEPT !.tasks[t].abortNo = m.aborts + 1,
                             !.aborts = m.aborts + 1], t)
    IN  [d EXCEPT !.susp = <<>>]
Abort(m, t, err) ==
    LET r == Reject(m, t, err, 0)
        d == Drain([r EXCEPT !.tasks[t].abortNo = m.aborts + 1,
                             !.aborts = m.aborts + 1], t)
    IN  [d EXCEPT !.busy = FALSE, !.susp = <<>>]

\* retryCount < MAX_RETRIES, queue.ts:101
MayRetry(retryCount) == retryCount < MAX_RETRIES

\* RETRY_DELAYS[retryCount + 1], queue.ts:105
RetryDelaySame(retryCount) == RetryDelayAt(retryCount)
RetryDelay(retryCount) == RetryDelayAt(retryCount + 1)

\* ------------------------------------------------------------------------
Commit(m, others) ==
    /\ translationQueue' = m.queue
    /\ lastRequestTime' = m.last
    /\ isProcessing' = m.busy
    /\ tasks' = m.tasks
    /\ prevRequestTime' = m.prev
    /\ dispatches' = m.dispatches
    /\ nsettled' = m.nsettled
    /\ aborts' = m.aborts
    /\ procs' = others \o m.susp
    /\ UNCHANGED rvars

Without(s, p) == [i \in 1..(Len(s) - 1) |-> IF i < p THEN s[i] ELSE s[i + 1]]

InitQ ==
    /\ issues = <<>>
    /\ active = <<>>
    /\ apiFailures = 0
    /\ overlapped = FALSE
    /\ runs = 0
    /\ lastReport = [kind |-> "none", timestamp |-> <<>>, items |-> <<>>]
    /\ prevReport = [kind |-> "none", timestamp |-> <<>>, items |-> <<>>]
    /\ lastGroups = <<>>
    /\ prevGroups = <<>>
    /\ lastPath = "none"
    /\ translationQueue = <<>>
    /\ lastRequestTime = 0
    /\ isProcessing = FALSE
    /\ clock = StartTime
    /\ procs = <<>>
    /\ tasks = <<>>
    /\ faults = 0
    /\ prevRequestTime = 0
    /\ dispatches = 0
    /\ nsettled = 0
    /\ aborts = 0

\* addQueue(key, newQueue), queue.ts:21-26, with the synchronous part of the
\* processQueue() call it makes (lines 35-47 / 49-56)
AddQueue ==
    /\ Len(tasks) < MaxTasks
    /\ LET t == Len(tasks) + 1
           m == [Machine EXCEPT !.queue = Append(translationQueue, t),
                                !.tasks = Append(tasks, [NewTask EXCEPT !.born = aborts])]
       IN  IF MayStart(m.busy)
           THEN Commit(Continue([m EXCEPT !.busy = TRUE], clock), procs)
           ELSE Commit(m, procs)
    /\ UNCHANGED <<clock, faults>>

\* the timer of 'await delay(100 - timeSinceLastRequest)' (line 46) fires;
\* processQueue goes on with lines 49-56
SlotGranted ==
    \E p \in 1..Len(procs) : \E late \in TimerLate :
        /\ procs[p].pc = "slot"
        /\ LET now == FireTime(clock, procs[p].wake, late)
           IN  /\ clock' = now
               /\ Commit(Take(Machine, now), Without(procs, p))
        /\ UNCHANGED faults

\* the promise of task.queue() (line 86) fulfils: executeTaskWithRetry
\* returns, processQueue resolves the task (line 57) and loops
OpSucceeds ==
    \E p \in 1..Len(procs) : \E d \in OpTimes :
        /\ procs[p].pc = "op"
        /\ LET t == procs[p].task
               now == clock + d
               m == [Machine EXCEPT !.tasks[t].outcomes = Append(@, "ok")]
           IN  /\ clock' = now
               /\ Commit(Continue(Resolve(m, t), now), Without(procs, p))
        /\ UNCHANGED faults

\* the promise of task.queue() rejects (or the call throws): the catch block
\* of executeTaskWithRetry, queue.ts:87-113, and, when it rethrows, the
\* catch block of processQueue, queue.ts:58-69
OpFails ==
    \E p \in 1..Len(procs) : \E d \in OpTimes : \E kind \in FailureKinds :
        /\ procs[p].pc = "op"
        /\ faults < MaxFaults
        /\ faults' = faults + 1
        /\ LET t == procs[p].task
               n == procs[p].retryCount
               now == clock + d
               err == OpError(kind, t, n)
               m == [Machine EXCEPT !.tasks[t].outcomes = Append(@, kind)]
           IN  /\ clock' = now
               /\ IF IsRefused(err)
                  THEN Commit(Abort(m, t, err), Without(procs, p))
                  ELSE IF HandlerThrows(err)
                  THEN Commit(Abort(m, t, HandlerError(t, n)), Without(procs, p))
                  ELSE IF MayRetry(n)
                       THEN Commit([m EXCEPT !.tasks[t].waits =
                                                Append(@, RetryDelay(n)),
                                             !.susp = <<[pc |-> "backoff", task |-> t,
                                                         retryCount |-> n,
                                                         wake |-> DelayWake(now, RetryDelay(n))]>>],
                                   Without(procs, p))
                       ELSE Commit(Abort(m, t, err), Without(procs, p))

\* the timer of 'await delay(retryDelay)' (line 106) fires:
\* executeTaskWithRetry(task, retryCount + 1) invokes task.queue() again
BackoffDone ==
    \E p \in 1..Len(procs) : \E late \in TimerLate :
        /\ procs[p].pc = "backoff"
        /\ LET t == procs[p].task
               now == FireTime(clock, procs[p].wake, late)
           IN  /\ clock' = now
               /\ Commit([Machine EXCEPT !.tasks[t].calls = @ + 1,
                                         !.susp = <<[pc |-> "op", task |-> t,
                                                     retryCount |-> procs[p].retryCount + 1,
                                                     wake |-> 0]>>],
                         Without(procs, p))
        /\ UNCHANGED faults

NextQ ==
    \/ AddQueue
    \/ SlotGranted
    \/ OpSucceeds
    \/ OpFails
    \/ BackoffDone

SpecQueue == InitQ /\ [][NextQ]_vars

\* The queue with its scheduling: a timer that was set fires (delay()
\* resolves, queue.ts:46 and 106), and every invocation of an operation
\* terminates, by fulfilling or by rejecting.
SpecQueueLive ==
    /\ InitQ
    /\ [][NextQ]_vars
    /\ WF_vars(SlotGranted)
    /\ WF_vars(BackoffDone)
    /\ WF_vars(OpSucceeds \/ OpFails)

\* ------------------------------------------------------------------------
\* Properties of the queue (checked under SpecQueue)

Settled(t) == tasks[t].state \in {"resolved", "rejected"}
Submitted == 1..Len(tasks)

\* task t was rejected with the error its own operation threw last
OwnError(t) ==
    /\ tasks[t].state = "rejected"
    /\ tasks[t].outcomes # <<>>
    /\ tasks[t].err = OpError(tasks[t].outcomes[Len(tasks[t].outcomes)], t,
                              Len(tasks[t].outcomes) - 1)
    /\ tasks[t].err.kind \in {"fail", "refused"}

\* task i is the first task to fail terminally
FirstFailure(i) ==
    /\ tasks[i].state = "rejected"
    /\ tasks[i].err # AbortError
    /\ \A j \in 1..(i - 1) : ~(tasks[j].state = "rejected" /\ tasks[j].err # AbortError)

\* C1: when task i is the first to fail terminally, by a refusal or by its
\* 6th failure, tasks 1..i-1 are resolved, task i is rejected with the error
\* its own operation threw, every later task that was submitted before task
\* i was rejected is rejected with the cascade-abort error (by the time task
\* i's rejection is handled), and tasks 1..i settled in submission order.
C1_CascadeAbort ==
    \A i \in Submitted :
      (FirstFailure(i)
          /\ \/ tasks[i].outcomes[Len(tasks[i].outcomes)] = "refused"
             \/ Len(tasks[i].outcomes) = 6) =>
        /\ \A j \in 1..(i - 1) : tasks[j].state = "resolved"
        /\ OwnError(i)
        /\ \A j \in (i + 1)..Len(tasks) :
               tasks[j].born < tasks[i].abortNo =>
                   /\ tasks[j].state = "rejected"
                   /\ tasks[j].err = AbortError
                   /\ tasks[j].calls = 0
        /\ \A j \in 1..i : tasks[j].settledAt = j

\* C2: every completion handle is settled at most once, never both ways, and
\* whenever no processor loop is active every submitted task has been
\* settled exactly once.
C2_SettledOnce ==
    /\ \A t \in Submitted :
          /\ tasks[t].resolves + tasks[t].rejects <= 1
          /\ (tasks[t].state = "resolved") <=> (tasks[t].resolves = 1)
          /\ (tasks[t].state = "rejected") <=> (tasks[t].rejects = 1)
    /\ ~isProcessing =>
          \A t \in Submitted : tasks[t].resolves + tasks[t].rejects = 1

C2_Witness ==
    /\ ~isProcessing
    /\ \E t \in Submitted : tasks[t].resolves = 1
    /\ \E t \in Submitted : tasks[t].rejects = 1 /\ tasks[t].err = AbortError

\* C3: at most one processQueue loop is active and at most one task is in
\* flight, whatever addQueue calls interleave with the suspension points.
C3_OneLoop ==
    /\ Len(procs) <= 1
    /\ Len(procs) = 1 => isProcessing
    /\ Cardinality({t \in Submitted : tasks[t].state = "running"}) <= 1

C3_Witness ==
    /\ Len(procs) = 1
    /\ procs[1].pc = "backoff"
    /\ Len(translationQueue) >= 2

\* C4: the operation of a task is first invoked only after every task
\* submitted before it has been settled.
C4_Fifo ==
    \A t \in Submitted : tasks[t].calls > 0 =>
        \A s \in 1..(t - 1) : Settled(s)

C4_Witness ==
    /\ Len(tasks) >= 3
    /\ tasks[2].state = "running"
    /\ tasks[1].state = "resolved"
    /\ tasks[3].state = "queued"

\* C5: two consecutive dispatches (assignments of lastRequestTime) are at
\* least 100 ms apart, also across processor runs.
C5_MinGap ==
    dispatches >= 2 => lastRequestTime - prevRequestTime >= 100

\* the second dispatch belongs to a fresh run started after a cascade-abort
\* and had to wait for its slot
C5_Witness ==
    /\ dispatches = 2
    /\ Len(tasks) >= 2
    /\ tasks[2].born = 1
    /\ tasks[2].calls = 1
    /\ lastRequestTime - prevRequestTime = 100

\* C6: an operation is invoked at most 6 times, the wait before retry k
\* (k = 1..5) is the schedule value at index k of
\* [0, 1s, 2s, 8s, 10s, 60s], and after the 6th failed attempt the task is
\* rejected without another attempt.
C6_RetrySchedule ==
    LET schedule == <<0, 1000, 2000, 8000, 10000, 60000>>
    IN  \A t \in Submitted :
            /\ tasks[t].calls <= 6
            /\ Len(tasks[t].waits) <= 5
            /\ \A k \in 1..Len(tasks[t].waits) : tasks[t].waits[k] = schedule[k + 1]
            /\ tasks[t].calls \in {Len(tasks[t].waits), Len(tasks[t].waits) + 1}
            /\ (Len(tasks[t].outcomes) = 6 /\ tasks[t].outcomes[6] # "ok") =>
                  (tasks[t].state = "rejected" /\ tasks[t].calls = 6)

C6_Witness ==
    \E t \in Submitted :
        /\ tasks[t].calls = 6
        /\ tasks[t].outcomes = <<"fail", "fail", "fail", "fail", "fail", "fail">>
        /\ tasks[t].waits = <<1000, 2000, 8000, 10000, 60000>>

\* C7: an attempt that throws a TranslationRefusedError is the last one: no
\* further attempt, no backoff wait, and the task is rejected with that very
\* error; any other failure with retry budget left is followed by a backoff
\* wait and a retry.
C7_RefusalTerminal ==
    \A t \in Submitted : \A k \in 1..Len(tasks[t].outcomes) :
        /\ tasks[t].outcomes[k] = "refused" =>
              /\ k = Len(tasks[t].outcomes)
              /\ tasks[t].calls = k
              /\ Len(tasks[t].waits) = k - 1
              /\ tasks[t].state = "rejected"
              /\ tasks[t].err = OpError("refused", t, k - 1)
        /\ (tasks[t].outcomes[k] \in {"fail", "opaque"} /\ k <= 5) =>
              /\ Len(tasks[t].waits) >= k
              /\ tasks[t].calls >= k
              /\ tasks[t].state = "running" \/ Len(tasks[t].outcomes) > k
              /\ (tasks[t].calls = k) =>
                    \E p \in 1..Len(procs) :
                        procs[p].pc = "backoff" /\ procs[p].task = t

\* C8: a cascade-abort leaves the queue empty and isProcessing false; a task
\* submitted afterwards is not rejected by that abort, a fresh run is
\* started for it, and it is resolved when its operation succeeds.
C8_NotPoisoned ==
    /\ ~isProcessing => translationQueue = <<>>
    /\ (aborts > 0 /\ \A t \in Submitted : tasks[t].born < aborts) =>
          (translationQueue = <<>> /\ ~isProcessing)
    /\ \A t \in Submitted :
          /\ tasks[t].abortedBy # 0 =>
                tasks[t].born < tasks[tasks[t].abortedBy].abortNo
          /\ (tasks[t].born > 0 /\ tasks[t].outcomes # <<>>
                /\ tasks[t].outcomes[Len(tasks[t].outcomes)] = "ok") =>
                tasks[t].state = "resolved"
          /\ (tasks[t].born > 0 /\ ~Settled(t)) => isProcessing

C8_Witness ==
    \E t \in Submitted :
        /\ tasks[t].born > 0
        /\ tasks[t].state = "resolved"
        /\ \E s \in 1..(t - 1) : tasks[s].err = AbortError

\* the calls of task t's operation made so far, in the state before a step
CallsBefore(t) == IF t <= Len(tasks) THEN tasks[t].calls ELSE 0

\* C18: every step that invokes a task's operation (the first attempt at
\* queue.ts:56/86 or a retry at queue.ts:109) leaves lastRequestTime equal
\* to the time of that invocation.
C18_StampOnEveryAttempt ==
    [][(\E t \in 1..Len(tasks') : tasks'[t].calls > CallsBefore(t)) =>
           lastRequestTime' = clock']_vars

NoRefusal(outcomes) == \A k \in 1..Len(outcomes) : outcomes[k] # "refused"

\* C24: the step in which a task's operation fails for the 6th time (all six
\* with non-refusal errors) rejects the task with the error of that 6th
\* attempt and performs the cascade-abort: every task waiting in the queue is
\* rejected with the cascade-abort error, the queue is left empty, the loop
\* ends and isProcessing is cleared.
C24_ExhaustedRaisesLast ==
    [][\A t \in 1..Len(tasks) :
          (Len(tasks'[t].outcomes) = 6 /\ Len(tasks[t].outcomes) = 5
               /\ NoRefusal(tasks'[t].outcomes)
               /\ tasks'[t].outcomes[6] # "ok") =>
              /\ tasks'[t].state = "rejected"
              /\ tasks'[t].err = OpError(tasks'[t].outcomes[6], t, 5)
              /\ tasks'[t].rejects = 1
              /\ aborts' = aborts + 1
              /\ tasks'[t].abortNo = aborts'
              /\ \A k \in 1..Len(translationQueue) :
                     /\ tasks'[translationQueue[k]].state = "rejected"
                     /\ tasks'[translationQueue[k]].err = AbortError
                     /\ tasks'[translationQueue[k]].abortedBy = t
              /\ translationQueue' = <<>>
              /\ ~isProcessing'
              /\ procs' = <<>>]_vars

\* C25: a task whose operation has failed at most 5 times, with non-refusal
\* errors only, is not rejected and has caused no cascade-abort; when the
\* operation then succeeds the task is resolved.  A task is rejected for a
\* non-refusal failure of its own only after 6 failed attempts.
C25_TransientAbsorbed ==
    \A t \in Submitted :
        LET o == tasks[t].outcomes
            k == Len(o)
        IN  /\ (k >= 1 /\ k <= 5 /\ NoRefusal(o) /\ o[k] # "ok") =>
                   /\ tasks[t].state = "running"
                   /\ tasks[t].abortNo = 0
                   /\ \A s \in Submitted : tasks[s].abortedBy # t
            /\ (k >= 2 /\ o[k] = "ok" /\ NoRefusal(SubSeq(o, 1, k - 1))) =>
                   /\ k <= 6
                   /\ tasks[t].state = "resolved"
                   /\ tasks[t].err = NoErr
                   /\ tasks[t].abortNo = 0
                   /\ \A s \in Submitted : tasks[s].abortedBy # t
            /\ (tasks[t].state = "rejected"
                   /\ tasks[t].err.kind \in {"fail", "typeerror"}) =>
                   k = 6

\* C26: a task rejected with the cascade-abort error was waiting in the queue
\* and its operation was never invoked; a dispatched task leaves the running
\* state only by being resolved or by being rejected for a failure of its
\* own operation, a refusal or the 6th failure; and after a step that
\* performs a cascade-abort no task is running and no processor loop is
\* suspended.
C26_AbortsOnlyQueued ==
    [][/\ \A t \in 1..Len(tasks) :
              /\ (tasks'[t].err = AbortError /\ tasks[t].err # AbortError) =>
                     /\ tasks[t].state = "queued"
                     /\ tasks'[t].calls = 0
                     /\ tasks'[t].outcomes = <<>>
                     /\ tasks'[t].waits = <<>>
              /\ tasks[t].err = AbortError =>
                     /\ tasks'[t].calls = 0
                     /\ tasks'[t].outcomes = <<>>
              /\ (tasks[t].state = "running" /\ tasks'[t].state # "running") =>
                     \/ tasks'[t].state = "resolved"
                            /\ tasks'[t].outcomes[Len(tasks'[t].outcomes)] = "ok"
                     \/ /\ tasks'[t].state = "rejected"
                        /\ tasks'[t].err.task = t
                        /\ \/ tasks'[t].err.kind = "refused"
                           \/ Len(tasks'[t].outcomes) = 6
       /\ aborts' # aborts =>
              /\ \A t \in 1..Len(tasks') : tasks'[t].state # "running"
              /\ procs' = <<>>]_vars

\* C27: every submitted task is eventually settled (checked under
\* SpecQueueLive, where timers fire and operations terminate).
C27_NoTaskStranded ==
    \A t \in 1..MaxTasks :
        (Len(tasks) >= t) ~> (Len(tasks) >= t /\ Settled(t))

\* a task pushed after a cascade-abort ended the loop, and one pushed while
\* the loop was running, have both been settled and no loop is left
C27_Witness ==
    /\ Len(tasks) >= 3
    /\ \A t \in Submitted : Settled(t)
    /\ ~isProcessing
    /\ procs = <<>>
    /\ aborts >= 1
    /\ tasks[Len(tasks)].born >= 1
    /\ tasks[Len(tasks)].state = "resolved"
    /\ tasks[2].err = AbortError

\* ------------------------------------------------------------------------
\* The issue reconciler: .github/actions/create-untranslated-issues/index.js
\*
\* Text is a sequence of characters, one string per UTF-16 code unit: an
\* ASCII character is itself, any other character (and the backtick, which a
\* TLA+ string cannot hold) is written "uXXXX" after its code point.
Backtick == "u0060"
\* the characters the regex class \s matches and String.prototype.trim
\* removes: the white space and the line terminators of ECMAScript
Space ==
    {" ", "\n", "\t", "\r", "\f", "u000B", "u00A0", "u1680", "u2000", "u2001",
     "u2002", "u2003", "u2004", "u2005", "u2006", "u2007", "u2008", "u2009",
     "u200A", "u2028", "u2029", "u202F", "u205F", "u3000", "uFEFF"}

\* index.js:78  '] 번역 거부 항목 발생: '
TitlePrefixText ==
    <<"]", " ", "uBC88", "uC5ED", " ", "uAC70", "uBD80", " ", "uD56D",
      "uBAA9", " ", "uBC1C", "uC0DD", ":", " ">>

\* index.js:178  '## 번역 거부 항목\n\n'
BodyHeadText ==
    <<"#", "#", " ", "uBC88", "uC5ED", " ", "uAC70", "uBD80", " ", "uD56D",
      "uBAA9", "\n", "\n">>

\* index.js:179  '**게임**: '
GameLabelText ==
    <<"*", "*", "uAC8C", "uC784", "*", "*", ":", " ">>

\* index.js:180  '**모드**: '
ModLabelText ==
    <<"*", "*", "uBAA8", "uB4DC", "*", "*", ":", " ">>

\* index.js:181  '**발생 시간**: '
TimeLabelText ==
    <<"*", "*", "uBC1C", "uC0DD", " ", "uC2DC", "uAC04", "*", "*", ":", " ">>

\* index.js:182  '### 항목 목록\n\n'
ListHeadText ==
    <<"#", "#", "#", " ", "uD56D", "uBAA9", " ", "uBAA9", "uB85D", "\n", "\n">>

\* index.js:183-184  the header row and the separator row
TableHeadText ==
    <<"|", " ", "uD30C", "uC77C", " ", "|", " ", "uD0A4", " ", "|", " ",
      "uC6D0", "uBB38", " ", "|", "\n", "|", "-", "-", "-", "-", "-", "-",
      "|", "-", "-", "-", "-", "-", "|", "-", "-", "-", "-", "-", "-", "|",
      "\n">>

\* index.js:165, 203  '---\n'
RuleText ==
    <<"-", "-", "-", "\n">>

\* index.js:166, 204  the footer sentence
FooterText ==
    <<"uC774", " ", "uC774", "uC288", "uB294", " ", "uC790", "uB3D9",
      "uC73C", "uB85C", " ", "uC0DD", "uC131", "uB418", "uC5C8", "uC2B5",
      "uB2C8", "uB2E4", ".", " ", "uC218", "uB3D9", " ", "uBC88", "uC5ED",
      "uC774", " ", "uD544", "uC694", "uD55C", " ", "uD56D", "uBAA9",
      "uC785", "uB2C8", "uB2E4", ".", "\n">>

\* index.js:102, 164  '**마지막 업데이트**:'
LastUpdatedText ==
    <<"*", "*", "uB9C8", "uC9C0", "uB9C9", " ", "uC5C5", "uB370", "uC774",
      "uD2B8", "*", "*", ":">>

\* index.js:154, 195  the opening of a collapsible block
DetailsOpenText ==
    <<"<", "d", "e", "t", "a", "i", "l", "s", ">", "<", "s", "u", "m", "m",
      "a", "r", "y", ">", "uC804", "uCCB4", " ", "uBA54", "uC2DC", "uC9C0",
      " ", "uBCF4", "uAE30", "<", "/", "s", "u", "m", "m", "a", "r", "y",
      ">", "\n", "\n", "u0060", "u0060", "u0060", "\n">>

\* index.js:154, 195  the closing of a collapsible block
DetailsCloseText ==
    <<"\n", "u0060", "u0060", "u0060", "\n", "\n", "<", "/", "d", "e", "t",
      "a", "i", "l", "s", ">", "\n">>

\* index.js:125  '<details>'
DetailsTagText ==
    <<"<", "d", "e", "t", "a", "i", "l", "s", ">">>

\* index.js:125  '</details>'
DetailsEndTagText ==
    <<"<", "/", "d", "e", "t", "a", "i", "l", "s", ">">>

\* index.js:103  the text /\n---\n/ matches
RuleLineText ==
    <<"\n", "-", "-", "-", "\n">>

Min(a, b) == IF a < b THEN a ELSE b

\* the first index >= i of s whose character is not in C (none: the index
\* after the end of s, or i when i lies beyond it)
SkipIn(s, i, C) ==
    IF i > Len(s) THEN i
    ELSE CHOOSE j \in i..(Len(s) + 1) :
             /\ j = Len(s) + 1 \/ s[j] \notin C
             /\ \A k \in i..(j - 1) : s[k] \in C

\* the first index >= i of s whose character is in C (none: as for SkipIn)
SkipNotIn(s, i, C) ==
    IF i > Len(s) THEN i
    ELSE CHOOSE j \in i..(Len(s) + 1) :
             /\ j = Len(s) + 1 \/ s[j] \in C
             /\ \A k \in i..(j - 1) : s[k] \notin C

\* pat occurs in s at index i
IsAt(s, pat, i) ==
    /\ i >= 1
    /\ i + Len(pat) - 1 <= Len(s)
    /\ SubSeq(s, i, i + Len(pat) - 1) = pat

\* String.prototype.indexOf, 1-based (0: not found)
IndexOf(s, pat, from) ==
    LET hits == {j \in from..Len(s) : IsAt(s, pat, j)}
    IN  IF hits = {} THEN 0 ELSE CHOOSE j \in hits : \A k \in hits : j <= k

\* String.prototype.slice(a, b), 0 <= a <= b
Slice(s, a, b) == SubSeq(s, a + 1, Min(b, Len(s)))

\* String.prototype.replace(/c/g, r) for a single character c
RECURSIVE ReplaceChar(_, _, _)
ReplaceChar(s, c, r) ==
    IF s = <<>> THEN <<>>
    ELSE IF Len(s) = 1 THEN (IF s[1] = c THEN r ELSE s)
    ELSE LET h == Len(s) \div 2
         IN  ReplaceChar(SubSeq(s, 1, h), c, r)
                 \o ReplaceChar(SubSeq(s, h + 1, Len(s)), c, r)

\* index.js:87  /\|\s*[^|]+\s*\|\s*'([^']+)'\s*\|/ tried at index i: between
\* the first two pipes a non-empty run without a pipe, then white space, a
\* backtick, a non-empty run without a backtick (the key), a backtick,
\* white space and a pipe.  'end' is the index after the match (lastIndex).
KeyMatchAt(s, i) ==
    LET j == SkipNotIn(s, i + 1, {"|"})
        k == SkipIn(s, j + 1, Space)
        l == SkipNotIn(s, k + 1, {Backtick})
        p == SkipIn(s, l + 1, Space)
    IN  IF /\ i <= Len(s) /\ s[i] = "|"
           /\ j <= Len(s) /\ j >= i + 2
           /\ k <= Len(s) /\ s[k] = Backtick
           /\ l <= Len(s) /\ l >= k + 2
           /\ p <= Len(s) /\ s[p] = "|"
        THEN [found |-> TRUE, key |-> SubSeq(s, k + 1, l - 1), end |-> p + 1]
        ELSE [found |-> FALSE, key |-> <<>>, end |-> i + 1]

\* index.js:86-91  the exec loop: every match from left to right, each search
\* starting where the previous match ended
RECURSIVE ScanKeys(_, _, _)
ScanKeys(s, i, acc) ==
    LET starts == {q \in i..Len(s) : s[q] = "|" /\ KeyMatchAt(s, q).found}
    IN  IF starts = {} THEN acc
        ELSE LET q == CHOOSE x \in starts : \A y \in starts : x <= y
                 m == KeyMatchAt(s, q)
             IN  ScanKeys(s, m.end, acc \cup {m.key})

ExtractKeys(body) == ScanKeys(body, 1, {})

\* index.js:86-91  the keys of the matches of the exec loop, one per matched
\* row, from left to right
RECURSIVE ScanKeyRows(_, _)
ScanKeyRows(s, i) ==
    LET starts == {q \in i..Len(s) : s[q] = "|" /\ KeyMatchAt(s, q).found}
    IN  IF starts = {} THEN <<>>
        ELSE LET q == CHOOSE x \in starts : \A y \in starts : x <= y
                 m == KeyMatchAt(s, q)
             IN  <<m.key>> \o ScanKeyRows(s, m.end)

KeyRows(body) == ScanKeyRows(body, 1)

\* index.js:147, 188  rawMessage.replace(/\|/g, '\\|').replace(/\n/g, ' ')
\*                              .replace(/'/g, '\\'')
EscapeCell(raw) ==
    ReplaceChar(ReplaceChar(ReplaceChar(raw, "|", <<"\\", "|">>), "\n", <<" ">>),
                Backtick, <<"\\", Backtick>>)

\* index.js:153, 194  rawMessage.replace(/\|/g, '\\|').replace(/'/g, '\\'')
EscapeDetails(raw) ==
    ReplaceChar(ReplaceChar(raw, "|", <<"\\", "|">>), Backtick, <<"\\", Backtick>>)

FoldLimit == 100

\* index.js:151, 192  rawMessage.length > 100 || rawMessage.includes('\n')
NeedsFoldFromLimit(raw) ==
    Len(raw) >= FoldLimit \/ \E i \in 1..Len(raw) : raw[i] = "\n"
NeedsFold(raw) ==
    Len(raw) > FoldLimit \/ \E i \in 1..Len(raw) : raw[i] = "\n"

\* index.js:148-152, 189-193
DisplayMessage(raw) ==
    IF NeedsFold(raw)
    THEN Slice(EscapeCell(raw), 0, FoldLimit) \o <<".", ".", ".">>
    ELSE EscapeCell(raw)

\* index.js:149-155, 190-196
DetailsSection(raw) ==
    IF NeedsFold(raw)
    THEN DetailsOpenText \o EscapeDetails(raw) \o DetailsCloseText
    ELSE <<>>

\* index.js:156-159, 197-200  one table row and its collapsible block
RowText(item) ==
    <<"|", " ">> \o item.file \o <<" ", "|", " ", Backtick>> \o item.key
        \o <<Backtick, " ", "|", " ">> \o DisplayMessage(item.message)
        \o <<" ", "|", "\n">> \o DetailsSection(item.message)

\* index.js:145-160, 186-201
RECURSIVE RowsText(_)
RowsText(items) ==
    IF items = <<>> THEN <<>> ELSE RowText(Head(items)) \o RowsText(Tail(items))

\* index.js:22-24
GameDisplayName(game) ==
    IF game = <<"c", "k", "3">> THEN <<"C", "K", "3">>
    ELSE IF game = <<"v", "i", "c", "3">> THEN <<"V", "I", "C", "3">>
    ELSE IF game = <<"s", "t", "e", "l", "l", "a", "r", "i", "s">>
         THEN <<"S", "t", "e", "l", "l", "a", "r", "i", "s">>
    ELSE game

\* index.js:78
Title(game, mod) == <<"[">> \o GameDisplayName(game) \o TitlePrefixText \o mod

\* index.js:178-204  the body of a new issue
CreateBody(game, mod, timestamp, items) ==
    BodyHeadText
        \o GameLabelText \o GameDisplayName(game) \o <<"\n">>
        \o ModLabelText \o mod \o <<"\n">>
        \o TimeLabelText \o timestamp \o <<"\n", "\n">>
        \o ListHeadText
        \o TableHeadText
        \o RowsText(items)
        \o <<"\n">> \o RuleText
        \o FooterText

\* index.js:102  existingBody.replace(/\*\*마지막 업데이트\*\*:.*?\n+/s, ''):
\* the first occurrence of the label, everything up to the next newline and
\* the run of newlines there; no newline after the label: no match
StripLastUpdated(s) ==
    LET i == IndexOf(s, LastUpdatedText, 1)
        n == SkipNotIn(s, i + Len(LastUpdatedText), {"\n"})
        e == SkipIn(s, n, {"\n"})
    IN  IF i = 0 \/ n > Len(s) THEN s
        ELSE SubSeq(s, 1, i - 1) \o SubSeq(s, e, Len(s))

\* index.js:103  updatedBody.replace(/\n---\n[\s\S]*$/s, ''): everything from
\* the first "\n---\n" to the end
StripFooter(s) ==
    LET i == IndexOf(s, RuleLineText, 1)
    IN  IF i = 0 THEN s ELSE SubSeq(s, 1, i - 1)

\* index.js:106  updatedBody.split('\n')
SplitLines(s) ==
    LET breaks == {i \in 1..Len(s) : s[i] = "\n"}
        \* the index of the k-th newline; 0 for k = 0, Len(s) + 1 past the last
        at(k) == IF k = 0 THEN 0
                 ELSE IF k > Cardinality(breaks) THEN Len(s) + 1
                 ELSE CHOOSE i \in breaks :
                          Cardinality({j \in breaks : j < i}) = k - 1
    IN  [k \in 1..(Cardinality(breaks) + 1) |->
            SubSeq(s, at(k - 1) + 1, at(k) - 1)]

\* line.trim().startsWith(prefix), for a prefix without white space
TrimStartsWith(line, prefix) == IsAt(line, prefix, SkipIn(line, 1, Space))

\* line.trim() === ''
TrimIsEmpty(line) == SkipIn(line, 1, Space) > Len(line)

\* index.js:107-113  the 0-based index of the first line that starts with a
\* pipe (-1: none)
TableStartLineFirst(lines) == 0
TableStartLine(lines) ==
    LET S == {i \in 1..Len(lines) : TrimStartsWith(lines[i], <<"|">>)}
    IN  IF S = {} THEN -1
        ELSE (CHOOSE i \in S : \A j \in S : i <= j) - 1

\* index.js:125
IsTableLine(line) ==
    \/ TrimStartsWith(line, <<"|">>)
    \/ TrimStartsWith(line, DetailsTagText)
    \/ TrimStartsWith(line, DetailsEndTagText)
    \/ TrimIsEmpty(line)

\* index.js:121-130  tableStartLine + 1, or the last line of the run of table
\* lines that starts at tableStartLine + 2 (0-based line numbers)
TableEndLine(lines, tableStartLine) ==
    LET from == tableStartLine + 2
        stops == {i \in from..(Len(lines) - 1) : ~IsTableLine(lines[i + 1])}
        stop == IF stops = {} THEN Len(lines)
                ELSE CHOOSE i \in stops : \A j \in stops : i <= j
    IN  IF stop - 1 >= from THEN stop - 1 ELSE tableStartLine + 1

\* the total length of lines a..b
RECURSIVE SumLen(_, _, _)
SumLen(lines, a, b) ==
    IF a > b THEN 0
    ELSE IF a = b THEN Len(lines[a])
    ELSE LET h == (a + b) \div 2
         IN  SumLen(lines, a, h) + SumLen(lines, h + 1, b)

\* lines.slice(0, n).join('\n').length
JoinLen(lines, n) ==
    LET cnt == Min(n, Len(lines))
    IN  IF cnt <= 0 THEN 0 ELSE SumLen(lines, 1, cnt) + cnt - 1

\* index.js:133-141
InsertPosition(updatedBody, lines, tableEndLine) ==
    IF tableEndLine > 0
    THEN LET p == JoinLen(lines, tableEndLine + 1)
         IN  IF p < Len(updatedBody) THEN p + 1 ELSE p
    ELSE Len(updatedBody)

\* index.js:94  items.filter(item => !existingKeys.has(item.key))
NewItems(items, existingKeys) ==
    SelectSeq(items, LAMBDA item : item.key \notin existingKeys)

\* index.js:101-166  the new body of an existing issue (found: a table was
\* found, line 115)
UpdateBody(existingBody, newItems, timestamp) ==
    LET stripped == StripFooter(StripLastUpdated(existingBody))
        lines == SplitLines(stripped)
        tableStartLine == TableStartLine(lines)
        tableEndLine == TableEndLine(lines, tableStartLine)
        insertPosition == InsertPosition(stripped, lines, tableEndLine)
    IN  IF tableStartLine = -1
        THEN [found |-> FALSE, body |-> existingBody]
        ELSE [found |-> TRUE,
              body |-> Slice(stripped, 0, insertPosition)
                          \o RowsText(newItems)
                          \o Slice(stripped, insertPosition, Len(stripped))
                          \o <<"\n">> \o LastUpdatedText \o <<" ">> \o timestamp
                          \o <<"\n", "\n">>
                          \o RuleText
                          \o FooterText]

\* index.js:61-67  the items that pass the property check
ValidItems(items) == SelectSeq(items, LAMBDA item : item.valid)

\* index.js:58-75  the property names of itemsByMod in the order in which
\* the loop adds them: the mods in the order of their first item
RECURSIVE InsertionOrder(_, _)
InsertionOrder(items, seen) ==
    IF items = <<>> THEN <<>>
    ELSE IF Head(items).mod \in seen THEN InsertionOrder(Tail(items), seen)
    ELSE <<Head(items).mod>>
             \o InsertionOrder(Tail(items), seen \cup {Head(items).mod})

DecimalDigits == <<"0", "1", "2", "3", "4", "5", "6", "7", "8", "9">>
IsDigit(c) == \E d \in 1..10 : DecimalDigits[d] = c
DigitValue(c) == (CHOOSE d \in 1..10 : DecimalDigits[d] = c) - 1

\* a < b for two strings of digits without leading zeros: the shorter one
\* is the smaller number, and of two of one length the one with the smaller
\* digit at the first place where they differ
LessNumber(a, b) ==
    \/ Len(a) < Len(b)
    \/ /\ Len(a) = Len(b)
       /\ \E i \in 1..Len(a) :
              /\ SubSeq(a, 1, i - 1) = SubSeq(b, 1, i - 1)
              /\ DigitValue(a[i]) < DigitValue(b[i])

\* 2^32 - 2, the largest array index
MaxArrayIndex == <<"4", "2", "9", "4", "9", "6", "7", "2", "9", "4">>

\* a property name that is an array index: the canonical decimal form of an
\* integer from 0 to 2^32 - 2
IsArrayIndex(name) ==
    /\ name # <<>>
    /\ \A i \in 1..Len(name) : IsDigit(name[i])
    /\ Len(name) > 1 => name[1] # "0"
    /\ ~LessNumber(MaxArrayIndex, name)

\* index.js:77  Object.entries(itemsByMod): the array indices among the
\* property names first, in ascending numeric order, then the other names
\* in the order in which they were added
EntriesOrder(names) ==
    LET indices == SelectSeq(names, IsArrayIndex)
        others == SelectSeq(names, LAMBDA name : ~IsArrayIndex(name))
        rank(name) == Cardinality({i \in 1..Len(indices) :
                                      LessNumber(indices[i], name)}) + 1
        sorted == [k \in 1..Len(indices) |->
                      indices[CHOOSE i \in 1..Len(indices) : rank(indices[i]) = k]]
    IN  sorted \o others

\* index.js:58-77  the groups (mods) in the order in which the loop of line
\* 77 visits them
ModsOf(items, seen) == EntriesOrder(InsertionOrder(items, seen))

ItemsOfMod(items, mod) == SelectSeq(items, LAMBDA item : item.mod = mod)

KeysOf(items) == {items[i].key : i \in 1..Len(items)}

\* index.js:81  existingIssues.data.find(issue => issue.title === title):
\* the index of the first issue of the listing with that title (0: none)
FindIssue(listing, title) ==
    LET S == {i \in 1..Len(listing) : listing[i].title = title}
    IN  IF S = {} THEN 0 ELSE CHOOSE i \in S : \A j \in S : i <= j

\* index.js:54, 210 and part_000:35  the label 'translation-refused'
RefusedLabel ==
    <<"t", "r", "a", "n", "s", "l", "a", "t", "i", "o", "n", "-", "r", "e",
      "f", "u", "s", "e", "d">>

\* index.js:210  labels: ['translation-refused', game]
TrackingLabels(game) == {RefusedLabel, game}

\* index.js:50-55, part_000:32-37  listForRepo is called once, without
\* per_page and without a page number: the tracker answers with its first
\* page, which holds at most 30 issues
PerPage == 30

\* index.js:50-55, part_000:32-37  what listForRepo answers: the open issues
\* that carry both labels, newest first, cut at the page size
OpenIssues(store, game) ==
    LET all == SelectSeq(store, LAMBDA issue :
                   /\ issue.state = "open"
                   /\ TrackingLabels(game) \subseteq issue.labels)
    IN  SubSeq(all, 1, Min(PerPage, Len(all)))

\* the store with the body of issue 'number' replaced (issues.update)
WithBody(store, number, body) ==
    [i \in 1..Len(store) |->
        IF store[i].number = number THEN [store[i] EXCEPT !.body = body]
        ELSE store[i]]

\* index.js:77-214  one turn of the loop over the groups.  st.store is the
\* tracking store, st.groups what the run did for each group so far.
ReconcileGroup(st, listing, game, mod, items, timestamp) ==
    LET title == Title(game, mod)
        at == FindIssue(listing, title)
    IN  IF at # 0
        THEN LET existingIssue == listing[at]
                 existingKeys == ExtractKeys(existingIssue.body)
                 newItems == NewItems(items, existingKeys)
                 upd == UpdateBody(existingIssue.body, newItems, timestamp)
                 done(what, body) ==
                     [mod |-> mod, what |-> what, number |-> existingIssue.number,
                      items |-> items, newItems |-> newItems,
                      before |-> existingIssue.body, body |-> body]
             IN  IF newItems = <<>>
                 THEN [st EXCEPT !.groups =
                          Append(@, done("nonew", existingIssue.body))]
                 ELSE IF ~upd.found
                 THEN [st EXCEPT !.groups =
                          Append(@, done("notable", existingIssue.body))]
                 ELSE [store |-> WithBody(st.store, existingIssue.number, upd.body),
                       groups |-> Append(st.groups, done("update", upd.body))]
        ELSE LET body == CreateBody(game, mod, timestamp, items)
                 number == Len(st.store) + 1
             IN  [store |-> <<[number |-> number, title |-> title, body |-> body,
                               state |-> "open",
                               labels |-> TrackingLabels(game)]>> \o st.store,
                  groups |-> Append(st.groups,
                      [mod |-> mod, what |-> "create", number |-> number,
                       items |-> items, newItems |-> items,
                       before |-> <<>>, body |-> body])]

\* A run of an action that is suspended at the await of a tracker call.
\* 'listing' is what listForRepo answered, 'todo' what the loop has not
\* handled yet (for index.js the mods, for the closing action the listed
\* issues): the call the run awaits is the write for the head of 'todo'.
\* 'groups' is what the run did so far.
NewRun(action, report, timestamp, listing, todo) ==
    [action |-> action, report |-> report, timestamp |-> timestamp,
     listing |-> listing, todo |-> todo, groups |-> <<>>]

\* one turn of the loop of index.js:77 for the head of run.todo, against the
\* store as it is when the tracker handles the call
Turn(run, store, game) ==
    LET items == ValidItems(run.report.items)
    IN  ReconcileGroup([store |-> store, groups |-> run.groups], run.listing,
                       game, Head(run.todo), ItemsOfMod(items, Head(run.todo)),
                       run.timestamp)

\* index.js:77-118  the loop goes on without an await over the groups that
\* need no write (no new item: 96-99, no table: 115-118) and stops at the
\* first group whose issues.update (169) or issues.create (206) it awaits
RECURSIVE Proceed(_, _, _)
\* 'st' is what the turn for the head of run.todo gives
ProceedPast(run, store, game, st) ==
    IF st.groups[Len(st.groups)].what \in {"create", "update"}
    THEN run
    ELSE Proceed([run EXCEPT !.todo = Tail(@), !.groups = st.groups],
                 store, game)
Proceed(run, store, game) ==
    IF run.todo = <<>> THEN run
    ELSE ProceedPast(run, store, game, Turn(run, store, game))

\* the record of a group whose tracker call was rejected (index.js:215-220:
\* core.setFailed; part_000:67-69: core.error), which ends the run
FailedGroup(mod, number) ==
    [mod |-> mod, what |-> "failed", number |-> number, items |-> <<>>,
     newItems |-> <<>>, before |-> <<>>, body |-> <<>>]

\* ------------------------------------------------------------------------
\* The closing action: unnamed/part_000

\* part_000:51  the success banner
BannerText ==
    <<"u2705", " ", "*", "*", "uBAA8", "uB4E0", " ", "uD56D", "uBAA9",
      "uC774", " ", "uC131", "uACF5", "uC801", "uC73C", "uB85C", " ",
      "uBC88", "uC5ED", "uB418", "uC5C8", "uC2B5", "uB2C8", "uB2E4", ".",
      "*", "*", "\n", "\n">>

\* part_000:54  the footer sentence of a closed issue
CloseFooterText ==
    <<"uC774", " ", "uC774", "uC288", "uB294", " ", "uC790", "uB3D9",
      "uC73C", "uB85C", " ", "uC0DD", "uC131", " ", "uBC0F", " ", "uAD00",
      "uB9AC", "uB418", "uC5C8", "uC2B5", "uB2C8", "uB2E4", ".", "\n">>

\* part_000:16-25  hasNoUntranslatedItems: the report file is absent, or it
\* parses and holds no item; a file that does not parse: false (line 23)
HasNoItemsOnError(report) ==
    report.kind # "data" \/ Len(report.items) = 0
HasNoUntranslatedItems(report) ==
    \/ report.kind = "absent"
    \/ report.kind = "data" /\ Len(report.items) = 0

\* part_000:45  existingBody.replace(/\*\*마지막 업데이트\*\*:[^\n]*\n*/g, ''):
\* every occurrence of the label, from left to right, each with the rest of
\* its line and the run of newlines after it; s is copied from index 'from'
RECURSIVE StripLastUpdatedFrom(_, _)
StripLastUpdatedFrom(s, from) ==
    LET i == IndexOf(s, LastUpdatedText, from)
        n == SkipNotIn(s, i + Len(LastUpdatedText), {"\n"})
        e == SkipIn(s, n, {"\n"})
    IN  IF i = 0 THEN SubSeq(s, from, Len(s))
        ELSE SubSeq(s, from, i - 1) \o StripLastUpdatedFrom(s, e)

StripEveryLastUpdated(s) == StripLastUpdatedFrom(s, 1)

\* part_000:43-54  the body of an issue that is being closed
CloseBody(existingBody, timestamp) ==
    StripFooter(StripEveryLastUpdated(existingBody))
        \o <<"\n", "\n">>
        \o RuleText \o <<"\n">>
        \o BannerText
        \o LastUpdatedText \o <<" ">> \o timestamp \o <<"\n", "\n">>
        \o RuleText
        \o CloseFooterText

\* part_000:56-62  octokit.rest.issues.update({body, state: 'closed'})
Closed(issue, body) == [issue EXCEPT !.body = body, !.state = "closed"]

\* part_000:41-64  one turn of the loop over the listed issues: the issue at
\* the head of run.todo gets the closing body computed from its listed body
\* and is closed, whatever the store holds for it by now
CloseTurn(run, store) ==
    LET issue == Head(run.todo)
        body == CloseBody(issue.body, run.timestamp)
    IN  [store |-> [i \in 1..Len(store) |->
                       IF store[i].number = issue.number
                       THEN Closed(store[i], body) ELSE store[i]],
         groups |-> Append(run.groups,
                       [mod |-> <<>>, what |-> "close", number |-> issue.number,
                        items |-> <<>>, newItems |-> <<>>,
                        before |-> issue.body, body |-> body])]

\* ------------------------------------------------------------------------
\* Inputs of the reconciler
Game == <<"c", "k", "3">>
ModM == <<"m">>
ModN == <<"n">>
FileF == <<"f">>
Item(mod, file, key, message) ==
    [valid |-> TRUE, mod |-> mod, file |-> file, key |-> key, message |-> message]

ItA == Item(ModM, FileF, <<"a">>, <<"h", "i">>)
ItB == Item(ModM, FileF, <<"b">>, <<"x", "|", "y", Backtick, "z">>)
ItN == Item(ModN, FileF, <<"a">>, <<"o", "n", "e", "\n", "t", "w", "o">>)
ItQ == Item(ModM, FileF, <<"c", Backtick, "d">>, <<"h", "i">>)
ItP == Item(ModM, <<"x", " ", "|", " ", Backtick, "z", Backtick, " ">>, <<"e">>,
            <<"h", "i">>)
ItR == Item(ModM, FileF, <<"r">>, <<"x", "\n", "-", "-", "-", "\n", "y">>)
\* messages of 101 and of 100 characters, a pipe at position 100
LongMessage(n) == [i \in 1..n |-> IF i = 100 THEN "|" ELSE "a"]
ItL == Item(ModN, FileF, <<"l">>, LongMessage(101))
ItE == Item(ModN, FileF, <<"e">>, LongMessage(100))
\* a message of two lines that holds the last-updated label
ItJ == Item(ModN, FileF, <<"j">>,
            <<"*", "*", "*", "*", "uB9C8", "uC9C0", "uB9C9", " ", "uC5C5",
              "uB370", "uC774", "uD2B8", "*", "*", ":", " ", "x", "\n",
              "uB9C8", "uC9C0", "uB9C9", " ", "uC5C5", "uB370", "uC774",
              "uD2B8", "*", "*", ":", " ", "y">>)
\* an item without a string 'key' property (index.js:61-70)
ItBad == [valid |-> FALSE, mod |-> ModM, file |-> FileF, key |-> <<>>,
          message |-> <<>>]

Data(timestamp, items) ==
    [kind |-> "data", timestamp |-> timestamp, items |-> items]
T1 == <<"T", "1">>
T2 == <<"T", "2">>
T3 == <<"T", "3">>

\* the reports a run may find: none, one that does not parse, or a document
NoReport == [kind |-> "absent", timestamp |-> <<>>, items |-> <<>>]
BadReport == [kind |-> "invalid", timestamp |-> <<>>, items |-> <<>>]
\* an item of a mod whose name is an array index
ItOne == Item(<<"1">>, FileF, <<"a">>, <<"h", "i">>)

DataReports ==
    { Data(T1, <<>>), Data(T1, <<ItA>>), Data(T1, <<ItA, ItB>>),
      Data(T2, <<ItB, ItA>>), Data(T1, <<ItA, ItN>>), Data(T1, <<ItQ>>),
      Data(T1, <<ItP>>), Data(T1, <<ItR, ItA>>), Data(T2, <<ItR, ItA, ItB>>),
      Data(T1, <<ItA, ItA>>), Data(T1, <<ItBad, ItB>>),
      Data(T2, <<ItN, ItL, ItE, ItJ>>), Data(T1, <<ItA, ItOne>>) }

\* an open issue whose body was edited by hand: no table, and two
\* last-updated lines
HandEdited ==
    [number |-> 1, title |-> Title(Game, ModM),
     body |-> <<"s", "e", "e", " ", "w", "i", "k", "i", "\n">>
                 \o LastUpdatedText \o <<" ">> \o T1 \o <<"\n">>
                 \o LastUpdatedText \o <<" ">> \o T2 \o <<"\n">>,
     state |-> "open", labels |-> TrackingLabels(Game)]
InitStores == {<<>>, <<HandEdited>>}

\* the open issue of mod n as a run created it, with the game's label taken
\* off by hand
Unlabelled ==
    [number |-> 1, title |-> Title(Game, ModN),
     body |-> CreateBody(Game, ModN, T1, <<ItN>>),
     state |-> "open", labels |-> {RefusedLabel}]

\* the open issue of the n-th of many mods, as a run created it
ModX(n) == <<"x", DecimalDigits[(n \div 10) + 1], DecimalDigits[(n % 10) + 1]>>
Tracked(n, mod, item) ==
    [number |-> n, title |-> Title(Game, mod),
     body |-> CreateBody(Game, mod, T1, <<item>>),
     state |-> "open", labels |-> TrackingLabels(Game)]

\* a tracker with one open issue more than a page holds: the issue of mod m,
\* the oldest, and the issues of PerPage other mods, newest first
Crowded ==
    [i \in 1..PerPage |->
        Tracked(PerPage + 2 - i, ModX(PerPage + 2 - i),
                Item(ModX(PerPage + 2 - i), FileF, <<"a">>, <<"h", "i">>))]
        \o <<Tracked(1, ModM, ItA)>>

TrackStores == InitStores \cup {<<Unlabelled>>}
SerialStores == InitStores \cup {Crowded}

\* the reports a run of the closing action may find, and the time it reads
\* (new Date().toISOString(), part_000:40)
CloseReports == {NoReport, BadReport, Data(T1, <<>>), Data(T1, <<ItA>>)}
CloseTimes == {T3}
\* the reports of the reconciler's runs that alternate with closing runs
BriefReports ==
    { Data(T1, <<ItA>>), Data(T2, <<ItA, ItB>>),
      Data(T2, <<ItN, ItL, ItE, ItJ>>) }

NoRun == [kind |-> "none", timestamp |-> <<>>, items |-> <<>>]

\* ------------------------------------------------------------------------
QueueIdle ==
    /\ translationQueue = <<>>
    /\ lastRequestTime = 0
    /\ isProcessing = FALSE
    /\ clock = StartTime
    /\ procs = <<>>
    /\ tasks = <<>>
    /\ faults = 0
    /\ prevRequestTime = 0
    /\ dispatches = 0
    /\ nsettled = 0
    /\ aborts = 0

NoRunYet ==
    /\ active = <<>>
    /\ apiFailures = 0
    /\ overlapped = FALSE
    /\ runs = 0
    /\ lastReport = NoRun
    /\ prevReport = NoRun
    /\ lastGroups = <<>>
    /\ prevGroups = <<>>
    /\ lastPath = "none"

InitR ==
    /\ QueueIdle
    /\ issues \in InitStores
    /\ NoRunYet

InitT ==
    /\ QueueIdle
    /\ issues \in TrackStores
    /\ NoRunYet

\* a run ends: what it found and did becomes the history of the latest run
Ran(path, report, store, groups) ==
    /\ runs' = runs + 1
    /\ lastPath' = path
    /\ prevReport' = lastReport
    /\ prevGroups' = lastGroups
    /\ lastReport' = report
    /\ lastGroups' = groups
    /\ issues' = store
    /\ UNCHANGED qvars

\* a tracker call of 'run' was answered and left the store as 'store': the
\* run is suspended at its next call ('stays' are then the suspended runs),
\* or it has no call left and ends ('leaves' are then the suspended runs)
Settle(run, store, stays, leaves) ==
    IF run.todo = <<>>
    THEN /\ Ran(run.action, run.report, store, run.groups)
         /\ active' = leaves
    ELSE /\ issues' = store
         /\ active' = stays
         /\ UNCHANGED <<runs, lastReport, prevReport, lastGroups, prevGroups,
                        lastPath, qvars>>

\* the tracker answered the listForRepo of a new run, which is now 'run'
Listed(run) == Settle(run, issues, Append(active, run), active)

\* the tracker handled the write of the suspended run p, which is now 'run'
Written(p, run, store) ==
    Settle(run, store, [active EXCEPT ![p] = run], Without(active, p))

\* a new run may start
MayRun == runs + Len(active) < MaxRuns

\* index.js:29-47  a run that returns early, before any tracker call: the
\* report file is absent (31-34), does not parse (36-42), or holds no items
\* (44-47)
RunSkipped ==
    /\ MayRun
    /\ \E report \in {NoReport, BadReport} \cup
                     {r \in DataReports : Len(r.items) = 0} :
           Ran("reconcile", report, issues, <<>>)
    /\ UNCHANGED <<active, apiFailures, overlapped>>

\* index.js:21-118  a run starts with a report that holds items, and the
\* tracker answers its listForRepo (line 50): the run groups the items and
\* goes through the groups up to its first write
RunListsOf(reports) ==
    /\ MayRun
    /\ \E report \in reports :
           Listed(Proceed(NewRun("reconcile", report, report.timestamp,
                                 OpenIssues(issues, Game),
                                 ModsOf(ValidItems(report.items), {})),
                          issues, Game))
    /\ overlapped' = (overlapped \/ active # <<>>)
    /\ UNCHANGED apiFailures

RunLists == RunListsOf({r \in DataReports : Len(r.items) # 0})

\* index.js:169-174, 206-212  the tracker handles the issues.update or the
\* issues.create a run awaits; the run goes on to its next write or ends
TurnDone(p, st) ==
    Written(p, Proceed([active[p] EXCEPT !.todo = Tail(@), !.groups = st.groups],
                       st.store, Game),
            st.store)
RunWrites ==
    /\ \E p \in 1..Len(active) :
           /\ active[p].action = "reconcile"
           /\ TurnDone(p, Turn(active[p], issues, Game))
    /\ UNCHANGED <<apiFailures, overlapped>>

\* index.js:50, 215-220  the tracker rejects the listForRepo of a run: the
\* catch block calls core.setFailed and the run ends
RunListFails ==
    /\ MayRun
    /\ apiFailures < MaxApiFailures
    /\ \E report \in BriefReports :
           Ran("reconcile", report, issues, <<FailedGroup(<<>>, 0)>>)
    /\ apiFailures' = apiFailures + 1
    /\ UNCHANGED <<active, overlapped>>

\* index.js:169, 206, 215-220  the tracker rejects the write a run awaits:
\* the catch block calls core.setFailed and the run ends, the writes it made
\* before stay
RunWriteFails ==
    /\ apiFailures < MaxApiFailures
    /\ \E p \in 1..Len(active) :
           /\ active[p].action = "reconcile"
           /\ Ran("reconcile", active[p].report, issues,
                  Append(active[p].groups, FailedGroup(Head(active[p].todo), 0)))
           /\ active' = Without(active, p)
    /\ apiFailures' = apiFailures + 1
    /\ UNCHANGED overlapped

NextR ==
    \/ RunSkipped
    \/ RunLists
    \/ RunWrites
    \/ RunListFails
    \/ RunWriteFails

SpecRecon == InitR /\ [][NextR]_vars

\* index.js:21-118  a run of the reconciler on a tracker that the closing
\* action works on too, with one of a few reports
RunListsBrief == RunListsOf(BriefReports)

\* part_000:27-40  a run of the closing action takes the close path and the
\* tracker answers its listForRepo (line 32): the run reads the time and
\* awaits the update of the first listed issue
RunCloseLists ==
    /\ MayRun
    /\ \E report \in {r \in CloseReports : HasNoUntranslatedItems(r)} :
       \E timestamp \in CloseTimes :
           Listed(NewRun("close", report, timestamp, OpenIssues(issues, Game),
                         OpenIssues(issues, Game)))
    /\ overlapped' = (overlapped \/ active # <<>>)
    /\ UNCHANGED apiFailures

\* part_000:56-64  the tracker handles the issues.update a closing run
\* awaits; the run goes on to the next listed issue or ends
CloseTurnDone(p, st) ==
    Written(p, [active[p] EXCEPT !.todo = Tail(@), !.groups = st.groups],
            st.store)
RunCloseWrites ==
    /\ \E p \in 1..Len(active) :
           /\ active[p].action = "close"
           /\ CloseTurnDone(p, CloseTurn(active[p], issues))
    /\ UNCHANGED <<apiFailures, overlapped>>

\* part_000:32, 67-69  the tracker rejects the listForRepo of a closing run:
\* the catch block logs the error and the run ends
RunCloseListFails ==
    /\ MayRun
    /\ apiFailures < MaxApiFailures
    /\ \E report \in {r \in CloseReports : HasNoUntranslatedItems(r)} :
           Ran("close", report, issues, <<FailedGroup(<<>>, 0)>>)
    /\ apiFailures' = apiFailures + 1
    /\ UNCHANGED <<active, overlapped>>

\* part_000:56, 67-69  the tracker rejects the issues.update a closing run
\* awaits: the catch block logs the error and the run ends, the issues it
\* has not reached stay open
RunCloseWriteFails ==
    /\ apiFailures < MaxApiFailures
    /\ \E p \in 1..Len(active) :
           /\ active[p].action = "close"
           /\ Ran("close", active[p].report, issues,
                  Append(active[p].groups,
                         FailedGroup(<<>>, Head(active[p].todo).number)))
           /\ active' = Without(active, p)
    /\ apiFailures' = apiFailures + 1
    /\ UNCHANGED overlapped

\* part_000:16-27  a run of the closing action that finds items, or a report
\* that does not parse, and does nothing
RunCloseSkipped ==
    /\ MayRun
    /\ \E report \in {r \in CloseReports : ~HasNoUntranslatedItems(r)} :
           Ran("close", report, issues, <<>>)
    /\ UNCHANGED <<active, apiFailures, overlapped>>

\* the runs of both actions on one tracker, in any order and interleaving
NextT ==
    \/ RunSkipped
    \/ RunListsBrief
    \/ RunWrites
    \/ RunListFails
    \/ RunWriteFails
    \/ RunCloseLists
    \/ RunCloseWrites
    \/ RunCloseListFails
    \/ RunCloseWriteFails
    \/ RunCloseSkipped

SpecTrack == InitT /\ [][NextT]_vars

\* The runs of both actions one after the other, each run started when no
\* other is suspended and every tracker call answered, also on a tracker
\* with more open issues than a page holds
InitSerial ==
    /\ QueueIdle
    /\ issues \in SerialStores
    /\ NoRunYet

SerialRunSkipped == active = <<>> /\ RunSkipped
SerialRunLists == active = <<>> /\ RunListsBrief
SerialRunCloseLists == active = <<>> /\ RunCloseLists
SerialRunCloseSkipped == active = <<>> /\ RunCloseSkipped

NextSerial ==
    \/ SerialRunSkipped
    \/ SerialRunLists
    \/ RunWrites
    \/ SerialRunCloseLists
    \/ RunCloseWrites
    \/ SerialRunCloseSkipped

SpecSerial == InitSerial /\ [][NextSerial]_vars

\* ------------------------------------------------------------------------
\* Properties of the reconciler (checked under SpecRecon)

\* the runs so far ran one after the other, none listed the issues while
\* another was suspended, and the tracker answered every call
OneByOne == ~overlapped /\ apiFailures = 0

\* C9: a second run with the same report, against the issues the first run
\* created or updated, finds no new item for any of those groups, emits no
\* create or update for them and leaves their bodies unchanged.
C9_Idempotent ==
    (runs >= 2 /\ lastPath = "reconcile" /\ lastReport.kind = "data"
        /\ lastReport = prevReport /\ OneByOne) =>
        \A g \in 1..Len(prevGroups) :
            prevGroups[g].what \in {"create", "update"} =>
                /\ g <= Len(lastGroups)
                /\ lastGroups[g].mod = prevGroups[g].mod
                /\ lastGroups[g].what = "nonew"
                /\ lastGroups[g].newItems = <<>>
                /\ lastGroups[g].body = prevGroups[g].body

\* C10: the keys extracted from a body the run wrote for a group are exactly
\* the keys of the report's items of that group (for an update: together
\* with the keys the body documented before), whatever the characters of the
\* items.
C10_RoundTrip ==
    \A g \in 1..Len(lastGroups) :
        /\ lastGroups[g].what = "create" =>
              ExtractKeys(lastGroups[g].body) = KeysOf(lastGroups[g].items)
        /\ lastGroups[g].what = "update" =>
              /\ KeysOf(lastGroups[g].items) \subseteq ExtractKeys(lastGroups[g].body)
              /\ ExtractKeys(lastGroups[g].body) \subseteq
                    KeysOf(lastGroups[g].items) \cup ExtractKeys(lastGroups[g].before)

\* C11: in every issue body, whatever sequence of runs produced it, each key
\* stands in at most one table row (no two rows matched by the row scan
\* carry the same key), also when one report holds several items with the
\* same key.
C11_KeyOnce ==
    OneByOne =>
        \A n \in 1..Len(issues) :
            LET rows == KeyRows(issues[n].body)
            IN  \A a, b \in 1..Len(rows) : a # b => rows[a] # rows[b]

\* the text between the file cell and the message cell of the row of 'key',
\* as index.js:156 and 197 write it
KeyCellText(key) ==
    <<" ", "|", " ", Backtick>> \o key \o <<Backtick, " ", "|", " ">>

\* the body holds a row written for 'key'
HasRowFor(body, key) == IndexOf(body, KeyCellText(key), 1) # 0

\* the items of a group whose key has no row in the body
Undocumented(items, body) ==
    SelectSeq(items, LAMBDA item : ~HasRowFor(body, item.key))

\* C12: a run that finds an open issue with the group's title (and a table
\* in it) appends one row for each item of the group whose key has no row in
\* the body yet, in report order, and no row for an item whose key has one.
C12_AppendsOnlyNew ==
    \A g \in 1..Len(lastGroups) :
        LET r == lastGroups[g]
            fresh == Undocumented(r.items, r.before)
        IN  r.what \in {"update", "nonew"} =>
                /\ r.newItems = fresh
                /\ (r.what = "nonew") <=> (fresh = <<>>)
                /\ r.what = "update" => IndexOf(r.body, RowsText(fresh), 1) # 0

\* the number of occurrences of pat in s
Occurrences(s, pat) == Cardinality({i \in 1..Len(s) : IsAt(s, pat, i)})

\* C17, the rule as stated: the characters a message character is shown as
ShownAs(c, keepNewline) ==
    IF c = "|" THEN <<"\\", "|">>
    ELSE IF c = Backtick THEN <<"\\", Backtick>>
    ELSE IF c = "\n" /\ ~keepNewline THEN <<" ">>
    ELSE <<c>>

\* raw[a..b] with every character replaced by what it is shown as
RECURSIVE ShownRange(_, _, _, _)
ShownRange(raw, a, b, keepNewline) ==
    IF a > b THEN <<>>
    ELSE IF a = b THEN ShownAs(raw[a], keepNewline)
    ELSE LET mid == (a + b) \div 2
         IN  ShownRange(raw, a, mid, keepNewline)
                 \o ShownRange(raw, mid + 1, b, keepNewline)

Shown(raw, keepNewline) == ShownRange(raw, 1, Len(raw), keepNewline)

\* the row the rule asks for, with its collapsible block when it is folded
ExpectedRow(item) ==
    LET raw == item.message
        folded == Len(raw) > 100 \/ "\n" \in {raw[i] : i \in 1..Len(raw)}
        cell == Shown(raw, FALSE)
        visible == IF folded
                   THEN SubSeq(cell, 1, Min(100, Len(cell))) \o <<".", ".", ".">>
                   ELSE cell
    IN  <<"|", " ">> \o item.file \o <<" ", "|", " ", Backtick>> \o item.key
            \o <<Backtick, " ", "|", " ">> \o visible \o <<" ", "|", "\n">>
            \o (IF folded
                THEN DetailsOpenText \o Shown(raw, TRUE) \o DetailsCloseText
                ELSE <<>>)

RECURSIVE ExpectedRows(_)
ExpectedRows(items) ==
    IF items = <<>> THEN <<>>
    ELSE ExpectedRow(Head(items)) \o ExpectedRows(Tail(items))

\* C17: the rows a run writes are the rows of the folding rule: in a new
\* body the table is the header followed by the expected rows of the items
\* and then the footer rule; an update inserts the expected rows of the new
\* items as one piece of text.
C17_Folding ==
    \A g \in 1..Len(lastGroups) :
        LET r == lastGroups[g]
        IN  /\ r.what = "create" =>
                  Occurrences(r.body, TableHeadText \o ExpectedRows(r.items)
                                          \o <<"\n">> \o RuleText) = 1
            /\ r.what = "update" =>
                  Occurrences(r.body, ExpectedRows(r.newItems)) >= 1

\* a run wrote rows for a message with a newline, one of 101 characters,
\* one of 100 characters and one of two lines
C17_Witness ==
    \E g \in 1..Len(lastGroups) :
        /\ lastGroups[g].what \in {"create", "update"}
        /\ \E a, b, c \in 1..Len(lastGroups[g].newItems) :
               /\ lastGroups[g].newItems[a] = ItL
               /\ lastGroups[g].newItems[b] = ItE
               /\ lastGroups[g].newItems[c] = ItJ

\* s ends with pat
EndsWith(s, pat) == IsAt(s, pat, Len(s) - Len(pat) + 1)

\* the text of an updated body before the rows the update inserted
BeforeNewRows(r) == SubSeq(r.body, 1, IndexOf(r.body, RowsText(r.newItems), 1) - 1)

\* C19: an update places the new rows directly after a table row or after
\* the collapsible block of the last row, and never inside a collapsible
\* block: before them every opened block is closed.
C19_RowsAfterTable ==
    \A g \in 1..Len(lastGroups) :
        LET r == lastGroups[g]
        IN  r.what = "update" =>
                /\ IndexOf(r.body, RowsText(r.newItems), 1) # 0
                /\ Occurrences(BeforeNewRows(r), DetailsTagText)
                       = Occurrences(BeforeNewRows(r), DetailsEndTagText)
                /\ \/ EndsWith(BeforeNewRows(r), <<"|", "\n">>)
                   \/ EndsWith(BeforeNewRows(r), DetailsEndTagText \o <<"\n">>)

\* the table lines of a body (header, separator and data rows), in order
TableLines(body) ==
    SelectSeq(SplitLines(body), LAMBDA line : TrimStartsWith(line, <<"|">>))

\* the collapsible blocks of a body, in order: each from its opening tag to
\* the end of the next closing tag (to the end of the body when none follows)
Blocks(body) ==
    LET starts == {i \in 1..Len(body) : IsAt(body, DetailsTagText, i)}
        nth(k) == CHOOSE i \in starts : Cardinality({j \in starts : j < i}) = k - 1
        stop(i) == LET e == IndexOf(body, DetailsEndTagText, i)
                   IN  IF e = 0 THEN Len(body) ELSE e + Len(DetailsEndTagText) - 1
    IN  [k \in 1..Cardinality(starts) |-> SubSeq(body, nth(k), stop(nth(k)))]

\* the elements of a occur in b in the same order (from a[i] and b[j] on)
RECURSIVE OccursInOrderFrom(_, _, _, _)
OccursInOrderFrom(a, b, i, j) ==
    IF i > Len(a) THEN TRUE
    ELSE IF j > Len(b) THEN FALSE
    ELSE IF a[i] = b[j] THEN OccursInOrderFrom(a, b, i + 1, j + 1)
    ELSE OccursInOrderFrom(a, b, i, j + 1)

OccursInOrder(a, b) == OccursInOrderFrom(a, b, 1, 1)

\* C20: every table row and every collapsible block of the body an update
\* found is in the body it writes, unchanged and in the same order.
C20_KeepsRowsAndBlocks ==
    \A g \in 1..Len(lastGroups) :
        lastGroups[g].what = "update" =>
            /\ OccursInOrder(TableLines(lastGroups[g].before),
                             TableLines(lastGroups[g].body))
            /\ OccursInOrder(Blocks(lastGroups[g].before),
                             Blocks(lastGroups[g].body))

\* the report is a document with items
HasItems(report) == report.kind = "data" /\ Len(report.items) > 0

\* the body of the issue with that number in the store
BodyOf(store, number) ==
    store[CHOOSE i \in 1..Len(store) : store[i].number = number].body

\* C21: every body a run writes, by create or by update, ends with one
\* last-updated line carrying the report's timestamp, the rule and the
\* footer sentence, and holds no other last-updated line or footer.
C21_LayoutSuffix ==
    \A g \in 1..Len(lastGroups) :
        lastGroups[g].what \in {"create", "update"} =>
            /\ EndsWith(lastGroups[g].body,
                   <<"\n">> \o LastUpdatedText \o <<" ">> \o lastReport.timestamp
                       \o <<"\n", "\n">> \o RuleText \o FooterText)
            /\ Occurrences(lastGroups[g].body, LastUpdatedText) = 1
            /\ Occurrences(lastGroups[g].body, FooterText) = 1

\* the run found an open issue for the group, its body has no line that
\* starts with a pipe, and the scan of the body leaves items of the group
NoTableCase(r) ==
    /\ r.what \in {"update", "nonew", "notable"}
    /\ TableLines(r.before) = <<>>
    /\ r.newItems # <<>>

\* C22: when the open issue of a group has no table, the run emits no update
\* for it, leaves its body as it was, and still handles every group of the
\* report.
C22_NoTableSkipped ==
    /\ \A g \in 1..Len(lastGroups) :
           NoTableCase(lastGroups[g]) =>
               /\ lastGroups[g].what = "notable"
               /\ lastGroups[g].body = lastGroups[g].before
               /\ BodyOf(issues, lastGroups[g].number) = lastGroups[g].before
    /\ (lastPath = "reconcile" /\ HasItems(lastReport)
           /\ \A g \in 1..Len(lastGroups) : lastGroups[g].what # "failed") =>
           Len(lastGroups) = Len(ModsOf(ValidItems(lastReport.items), {}))

\* the issue of the first group had no table and was skipped, and the run
\* went on to create the issue of the next group
C22_Witness ==
    /\ Len(lastGroups) = 2
    /\ NoTableCase(lastGroups[1])
    /\ lastGroups[1].what = "notable"
    /\ lastGroups[2].what = "create"

\* C23: when the open issue of a group has no table, the scan returns no
\* key, every item of the group counts as new, and after the run (no other
\* run at work) every such item's key has a row in the issue.
C23_NoTableKeepsItems ==
    \A g \in 1..Len(lastGroups) :
        (NoTableCase(lastGroups[g]) /\ OneByOne) =>
            /\ ExtractKeys(lastGroups[g].before) = {}
            /\ lastGroups[g].newItems = lastGroups[g].items
            /\ \A i \in 1..Len(lastGroups[g].items) :
                   HasRowFor(BodyOf(issues, lastGroups[g].number),
                             lastGroups[g].items[i].key)

\* ------------------------------------------------------------------------
\* Properties of the tracker under runs of both actions (checked under
\* SpecTrack, those about runs one after the other under SpecSerial)

\* the state of the issue with that number in a store ("none": no such issue)
StateOf(store, number) ==
    LET S == {i \in 1..Len(store) : store[i].number = number}
    IN  IF S = {} THEN "none" ELSE store[CHOOSE i \in S : TRUE].state

\* the report is absent, or it is a document without items
NothingLeft(report) ==
    report.kind = "absent" \/ (report.kind = "data" /\ Len(report.items) = 0)

\* the issue is open and carries the labels of the game's tracking issues
OpenTracked(issue) ==
    issue.state = "open" /\ {RefusedLabel, Game} \subseteq issue.labels

\* C13: while the runs of the two actions run one after the other, no two
\* open issues have the same title.
C13_OneOpenPerTitle ==
    OneByOne =>
        \A i, j \in 1..Len(issues) :
            (i # j /\ issues[i].state = "open" /\ issues[j].state = "open") =>
                issues[i].title # issues[j].title

\* C14: the closing action takes the close path exactly when the report is
\* absent or holds no item, and only a run on that path closes an issue; a
\* run of the closing action with any other report changes nothing; and,
\* with the runs one after the other, when a run on the close path ends no
\* open issue with the two labels is left.
C14_ClosePathExactly ==
    [][/\ \A p \in 1..Len(active') :
              /\ active'[p].action = "close" => NothingLeft(active'[p].report)
              /\ active'[p].action = "reconcile" => HasItems(active'[p].report)
       /\ \A i \in 1..Len(issues) :
              (issues[i].state = "open"
                  /\ StateOf(issues', issues[i].number) = "closed") =>
                  \E p \in 1..Len(active) :
                      /\ active[p].action = "close"
                      /\ NothingLeft(active[p].report)
                      /\ Head(active[p].todo).number = issues[i].number
       /\ (runs' # runs /\ lastPath' = "close" /\ ~NothingLeft(lastReport')) =>
              (issues' = issues /\ lastGroups' = <<>>)
       /\ (runs' # runs /\ lastPath' = "close" /\ NothingLeft(lastReport')
              /\ OneByOne') =>
              \A i \in 1..Len(issues') : ~OpenTracked(issues'[i])
      ]_vars

\* C15: a run that finds a report that does not parse makes no tracker call
\* and changes no issue, whichever action runs.
C15_ParseErrorKeepsAll ==
    [][/\ \A p \in 1..Len(active') : active'[p].report # BadReport
       /\ (runs' # runs /\ lastReport' = BadReport) =>
              (issues' = issues /\ lastGroups' = <<>>)]_vars

\* the closing action ran on a report that does not parse while an issue
\* was open, after the reconciler had run on such a report too
C15_Witness ==
    /\ lastPath = "close"
    /\ lastReport = BadReport
    /\ prevReport = BadReport
    /\ lastGroups = <<>>
    /\ \E i \in 1..Len(issues) : issues[i].state = "open"

\* C16: every issue a closing run closes is in state closed, and its new
\* body holds the success banner and exactly one last-updated line, the one
\* with the time of the closing run.
C16_ClosedBody ==
    \A g \in 1..Len(lastGroups) :
        lastGroups[g].what = "close" =>
            /\ StateOf(issues, lastGroups[g].number) = "closed"
            /\ Occurrences(lastGroups[g].body, BannerText) = 1
            /\ Occurrences(lastGroups[g].body, LastUpdatedText) = 1
            /\ \E timestamp \in CloseTimes :
                   Occurrences(lastGroups[g].body,
                       <<"\n">> \o LastUpdatedText \o <<" ">> \o timestamp
                           \o <<"\n">>) = 1

====
